---- MODULE Spec2Model ----
(***************************************************************************)
(* cagliari-news-backend.                                                   *)
(*   Spec          the ingestion script saveToDb.js (parseWithRetry,        *)
(*                 insertArticle, saveFeed, main), run after run            *)
(*   SpecFair      one run of the script, with every awaited promise        *)
(*                 eventually settled                                       *)
(*   SpecNormalize normalizeItem.js: normalizeItem (pickImage,              *)
(*                 sanitizeContent, sha1) called on one raw item            *)
(*   SpecExcerpt   normalizeItem.js: makeExcerpt called on a text and then  *)
(*                 on its own result                                        *)
(*   SpecKey       one string as the link of an item and as the             *)
(*                 canonical_url of a bookmark                              *)
(*   SpecServer    server.js: POST /api/important and                       *)
(*                 DELETE /api/important/:hash on important_articles        *)
(*                                                                          *)
(* JavaScript values are records [t, v]: t is the type tag, v the text of a *)
(* string (a sequence of one-character strings) or the url member of an     *)
(* object.  Every asynchronous function is cut at its awaits: one action is *)
(* the code that runs between two awaits.                                   *)
(***************************************************************************)
EXTENDS Integers, Sequences, FiniteSets, TLC

\* ------------------------------------------------------------------ bounds
MaxItems == 2
MaxRuns == 2
MaxFeeds == 2
MaxText == 4
MaxCut == 3
MaxRequests == 2

\* ------------------------------------------------------- program constants
\* parseWithRetry(url, 3)
ATTEMPTS == 3
\* const backoff = 1000 * i
BACKOFF_MS == 1000
\* makeExcerpt(excerptSource, 220)
EXCERPT_MAX == 220
\* FEED_1, FEED_2, FEED_3
FEED_SLOTS == 3

\* --------------------------------------------------------------- JS values
Undef == [t |-> "undef", v |-> <<>>]
Null == [t |-> "null", v |-> <<>>]
Str(s) == [t |-> "str", v |-> s]
\* an object; v is its url member ("" when it has none)
Obj(u) == [t |-> "obj", v |-> u]
\* the digest of the text s
Digest(s) == [t |-> "sha1", v |-> s]
\* a Date; v = <<>> is Invalid Date
DateOf(s) == [t |-> "date", v |-> s]

\* JavaScript truthiness: undefined, null and "" are falsy, objects are truthy
Truthy(x) == /\ x.t # "undef"
             /\ x.t # "null"
             /\ ~(x.t = "str" /\ x.v = <<>>)

\* a || b
Or(a, b) == IF Truthy(a) THEN a ELSE b

\* the characters \s matches
Whitespace == {" ", "\t"}
IsSpace(c) == c \in Whitespace

RECURSIVE TrimLeft(_)
TrimLeft(s) == IF s # <<>> /\ IsSpace(Head(s)) THEN TrimLeft(Tail(s)) ELSE s

RECURSIVE TrimRight(_)
TrimRight(s) == IF s # <<>> /\ IsSpace(s[Len(s)])
                THEN TrimRight(SubSeq(s, 1, Len(s) - 1))
                ELSE s

\* String.prototype.trim
Trim(s) == TrimRight(TrimLeft(s))

\* String(x): the text of a string, "[object Object]" for an object
ObjectText == <<"[object Object]">>
ToText(x) == IF x.t = "obj" THEN ObjectText ELSE x.v

\* ---------------------------------------------------------- normalizeItem.js
\* str.replace(/\s+/g, ' '): every run of whitespace becomes one space
RECURSIVE Collapse(_)
Collapse(s) ==
  IF s = <<>> THEN <<>>
  ELSE IF IsSpace(Head(s))
       THEN <<" ">> \o Collapse(TrimLeft(s))
       ELSE <<Head(s)>> \o Collapse(Tail(s))

Ellipsis == "..."

\* s.slice(0, n): a negative n counts from the end of s
Slice(s, n) ==
  LET to == IF n < 0 THEN (IF Len(s) + n < 0 THEN 0 ELSE Len(s) + n)
            ELSE IF n < Len(s) THEN n ELSE Len(s)
  IN SubSeq(s, 1, to)

makeExcerpt(str, max) ==
  IF ~Truthy(str) THEN Null
  ELSE LET s == Trim(Collapse(ToText(str)))
       IN IF Len(s) <= max THEN Str(s)
          ELSE Str(Append(Trim(Slice(s, max - 1)), Ellipsis))

\* the tokens that stand for an <img ... src="..."> tag, in either letter case
ImgTags == {"<img src=i>", "<IMG src=j>"}
ImgSrc(tok) == IF tok = "<img src=i>" THEN <<"i">> ELSE <<"j">>

\* String(html).match(/<img[^>]+src="([^"]+)"/i): the src of the first image tag
ImgMatch(text) ==
  LET hits == {j \in 1..Len(text) : text[j] \in ImgTags}
  IN IF hits = {} THEN Null
     ELSE Str(ImgSrc(text[CHOOSE j \in hits : \A m \in hits : j <= m]))

\* one step of the chain: typeof x === 'string' returns x, x?.url returns x.url
ImageStepHits(x) == x.t = "str" \/ (x.t = "obj" /\ x.v # <<>>)
ImageStepValue(x) == Str(x.v)

\* a bug: the thumbnail is tried before the enclosure
pickImage_thumbnailFirst(item) ==
  IF ImageStepHits(item.mediaThumbnail) THEN ImageStepValue(item.mediaThumbnail)
  ELSE IF ImageStepHits(item.enclosure) THEN ImageStepValue(item.enclosure)
  ELSE IF ImageStepHits(item.mediaContent) THEN ImageStepValue(item.mediaContent)
  ELSE LET html == Or(item.content_encoded, item.content)
       IN IF Truthy(html) THEN ImgMatch(ToText(html)) ELSE Null

pickImage(item) ==
  IF ImageStepHits(item.enclosure) THEN ImageStepValue(item.enclosure)
  ELSE IF ImageStepHits(item.mediaContent) THEN ImageStepValue(item.mediaContent)
  ELSE IF ImageStepHits(item.mediaThumbnail) THEN ImageStepValue(item.mediaThumbnail)
  ELSE LET html == Or(item.content_encoded, item.content)
       IN IF Truthy(html) THEN ImgMatch(ToText(html)) ELSE Null

\* sanitize-html with the allow-list of the source: a script element is dropped
ScriptTags == {"<script>"}
sanitizeContent(html) ==
  IF ~Truthy(html) THEN Null
  ELSE Str(SelectSeq(ToText(html), LAMBDA tok : tok \notin ScriptTags))

\* crypto.createHash('sha1').update(String(str)).digest('hex')
sha1(str) == Digest(ToText(str))

\* new Date(x): a text of digits parses, any other value gives Invalid Date
Digits == {"0", "1", "2", "3", "4", "5", "6", "7", "8", "9"}
NewDate(x) ==
  IF x.t = "date" THEN x
  ELSE IF x.t = "str" /\ x.v # <<>> /\ \A j \in 1..Len(x.v) : x.v[j] \in Digits
       THEN DateOf(x.v)
       ELSE DateOf(<<>>)

\* (x).trim() is a TypeError unless x is a string
TitleSource(item) == Or(item.title, Str(<<>>))
\* a bug: item?.guid || item?.link
UrlSource_guidFirst(item) == Or(Or(item.guid, item.link), Str(<<>>))
UrlSource(item) == Or(Or(item.link, item.guid), Str(<<>>))
NormalizeThrows(item) == TitleSource(item).t # "str" \/ UrlSource(item).t # "str"

\* a bug: url_hash = sha1(canonical_url || '')
normalizeItem_hashAlways(item) ==
  LET title == Str(Trim(TitleSource(item).v))
      canonical_url == Or(Str(Trim(UrlSource(item).v)), Null)
      publishedRaw == Or(Or(item.isoDate, item.pubDate), Null)
      published_at == IF Truthy(publishedRaw) THEN NewDate(publishedRaw) ELSE Null
      excerptSource == Or(Or(Or(Or(item.contentSnippet, item.summary),
                                item.description), item.content), Null)
      rawHtml == Or(Or(item.content_encoded, item.content), Null)
  IN [title |-> title,
      canonical_url |-> canonical_url,
      url_hash |-> sha1(Or(canonical_url, Str(<<>>))),
      published_at |-> published_at,
      image_url |-> pickImage(item),
      excerpt |-> makeExcerpt(excerptSource, EXCERPT_MAX),
      content_html |-> sanitizeContent(rawHtml)]

normalizeItem(item) ==
  LET title == Str(Trim(TitleSource(item).v))
      canonical_url == Or(Str(Trim(UrlSource(item).v)), Null)
      publishedRaw == Or(Or(item.isoDate, item.pubDate), Null)
      published_at == IF Truthy(publishedRaw) THEN NewDate(publishedRaw) ELSE Null
      excerptSource == Or(Or(Or(Or(item.contentSnippet, item.summary),
                                item.description), item.content), Null)
      rawHtml == Or(Or(item.content_encoded, item.content), Null)
  IN [title |-> title,
      canonical_url |-> canonical_url,
      url_hash |-> IF Truthy(canonical_url) THEN sha1(canonical_url) ELSE Null,
      published_at |-> published_at,
      image_url |-> pickImage(item),
      excerpt |-> makeExcerpt(excerptSource, EXCERPT_MAX),
      content_html |-> sanitizeContent(rawHtml)]

\* ------------------------------------------------------------- feed inputs
\* a raw item as rss-parser hands it over: every field it does not set is
\* undefined
RawItem(title, link, guid, snippet) ==
  [title |-> title, link |-> link, guid |-> guid,
   isoDate |-> Undef, pubDate |-> Undef,
   contentSnippet |-> snippet, summary |-> Undef, description |-> Undef,
   content |-> Undef, content_encoded |-> Undef,
   enclosure |-> Undef, mediaContent |-> Undef, mediaThumbnail |-> Undef]

\* the items the feeds of the model carry: two items of the same URL (one with
\* surrounding blanks) and different titles, an item identified by its guid,
\* an item without URL, an item without title, and an item whose <title>
\* element carries only attributes, which xml2js turns into an object
RawItems ==
  { RawItem(Str(<<"A">>), Str(<<"u">>), Undef, Undef),
    RawItem(Str(<<"B">>), Str(<<" ", "u", " ">>), Undef, Str(<<"x">>)),
    RawItem(Str(<<"A">>), Undef, Str(<<"g">>), Undef),
    RawItem(Str(<<"A">>), Undef, Undef, Undef),
    RawItem(Undef, Str(<<"u">>), Undef, Undef),
    RawItem(Obj(<<>>), Str(<<"u">>), Undef, Undef) }

\* the parsed documents parser.parseURL can resolve with: length is the number
\* of feed.items; what an item holds is drawn from RawItems when the loop of
\* saveFeed reads it
Docs == {[length |-> m, parsed |-> TRUE] : m \in 0..MaxItems}
NoDoc == [length |-> 0, parsed |-> FALSE]

\* the failures parser.parseURL can reject with
FetchErrors == {"network", "parse"}
Err(kind, at) == [kind |-> kind, at |-> at]
NoError == Err("none", 0)

\* [process.env.FEED_1, process.env.FEED_2, process.env.FEED_3].filter(Boolean):
\* the numbers of the variables that are set, in order
RECURSIVE FilterSet(_, _)
FilterSet(set, j) ==
  IF j > FEED_SLOTS THEN <<>>
  ELSE (IF j \in set THEN <<j>> ELSE <<>>) \o FilterSet(set, j + 1)

\* the environments of the model: at most MaxFeeds of the variables are set
Environments == {set \in SUBSET (1..FEED_SLOTS) : Cardinality(set) <= MaxFeeds}

\* ------------------------------------------------------------------- state
VARIABLES
  FEEDS,      \* the configured sources: the numbers of the FEED_n that are set
  pc,         \* where the run is suspended
  run,        \* the number of this run of the script
  pool,       \* "none", "open", "closed"
  exitCode,   \* the argument of process.exit, 0 when it was not called
  f,          \* main: index in FEEDS of the source being saved
  total,      \* main: totalInserted, totalDuplicated, totalSkipped
  outcomes,   \* what saveFeed returned for each source of this run
  i,          \* parseWithRetry: the attempt
  lastErr,    \* parseWithRetry: lastErr
  log,        \* the timer and fetch events of this call of parseWithRetry
  feed,       \* saveFeed: the parsed document
  k,          \* saveFeed: index of the item the loop is at
  n,          \* saveFeed: the normalized item that is being submitted
  tally,      \* saveFeed: inserted, duplicated, skipped
  articles,   \* the rows of table articles
  last,       \* what the last step did with an item of the feed
  called,     \* the sources saveFeed was called with in this run
  pending,    \* the promises the script has issued that are not settled
  given,      \* the argument of a call of normalizeItem or makeExcerpt
  returned,   \* what the calls made with the argument returned, in order
  important,  \* the rows of table important_articles
  req         \* the last request the server answered, with its status

vars == <<FEEDS, pc, run, pool, exitCode, f, total, outcomes, i, lastErr, log,
          feed, k, n, tally, articles, last, called, pending, given, returned,
          important, req>>

\* the variables of the other programs of the repository, which a run of
\* saveToDb.js does not touch
others == <<given, returned, important, req>>
NoArg == [kind |-> "none"]
NoReq == [method |-> "none", status |-> 0]

\* a promise is issued, a promise is settled (the first of its name)
Issue(p, what) == Append(p, what)
Settle(p, what) ==
  IF \E j \in 1..Len(p) : p[j] = what
  THEN LET at == CHOOSE j \in 1..Len(p) :
                   /\ p[j] = what
                   /\ \A h \in 1..(j - 1) : p[h] # what
       IN SubSeq(p, 1, at - 1) \o SubSeq(p, at + 1, Len(p))
  ELSE p

Zero == [inserted |-> 0, duplicated |-> 0, skipped |-> 0]
\* step: "missing" (skipped for a missing key), "answered" and "rejected" (the
\* statement of a submission resolved or rejected), "threw" (normalizeItem)
Step(step, present, affectedRows, counted) ==
  [step |-> step, present |-> present, affectedRows |-> affectedRows,
   counted |-> counted]
NoStep == Step("none", FALSE, 0, "none")
NoArticle == normalizeItem(RawItem(Undef, Undef, Undef, Undef))

Init ==
  /\ FEEDS \in {FilterSet(set, 1) : set \in Environments}
  /\ pc = "main"
  /\ run = 1
  /\ pool = "none"
  /\ exitCode = 0
  /\ f = 0
  /\ total = Zero
  /\ outcomes = <<>>
  /\ i = 0
  /\ lastErr = NoError
  /\ log = <<>>
  /\ feed = NoDoc
  /\ k = 0
  /\ n = NoArticle
  /\ tally = Zero
  /\ articles = {}
  /\ last = NoStep
  /\ called = <<>>
  /\ pending = <<>>
  /\ given = NoArg
  /\ returned = <<>>
  /\ important = {}
  /\ req = NoReq

\* ------------------------------------------------------------ parseWithRetry
Event(ev, arg) == [ev |-> ev, arg |-> arg]

\* for (let i = 1; i <= attempts; i++)
LoopCond(j) == j <= ATTEMPTS

\* if (i > 1) { const backoff = 1000 * i; await new Promise(setTimeout) }
NeedsBackoff(j) == j > 1
backoff(j) == BACKOFF_MS * j

\* catch (err) { lastErr = err; if (i === attempts) throw err; }
\* a bug: the catch gives up one attempt early
IsLastAttempt_early(j) == j = ATTEMPTS - 1
IsLastAttempt(j) == j = ATTEMPTS
\* a bug: the error of the attempt before is thrown
Rethrown_previous(err, previous) == previous
Rethrown(err, previous) == err

\* ------------------------------------------------------------------ saveFeed
\* catch (err) { return { inserted: 0, duplicated: 0, skipped: 0, error } }
ErrorOutcome(err) ==
  [inserted |-> 0, duplicated |-> 0, skipped |-> 0, error |-> err]

\* return { inserted, duplicated, skipped }
TallyOutcome(t) ==
  [inserted |-> t.inserted, duplicated |-> t.duplicated,
   skipped |-> t.skipped, error |-> NoError]

\* if (!n.canonical_url || !n.url_hash || !n.title)
MissingKeys(a) ==
  ~Truthy(a.canonical_url) \/ ~Truthy(a.url_hash) \/ ~Truthy(a.title)

\* inserted++ / duplicated++ / skipped++
Count(t, what) ==
  [inserted |-> t.inserted + (IF what = "inserted" THEN 1 ELSE 0),
   duplicated |-> t.duplicated + (IF what = "duplicated" THEN 1 ELSE 0),
   skipped |-> t.skipped + (IF what = "skipped" THEN 1 ELSE 0)]

\* a bug: continue without skipped++
SkipCount_forgotten(t) == t

\* skipped++; continue;
SkipCount(t) == Count(t, "skipped")

\* a bug: no final else, an unexpected result is not counted
Classify_noElse(res) ==
  IF res.inserted THEN "inserted"
  ELSE IF res.duplicated THEN "duplicated"
  ELSE "none"

\* if (res.inserted) inserted++; else if (res.duplicated) duplicated++;
\* else skipped++;
Classify(res) ==
  IF res.inserted THEN "inserted"
  ELSE IF res.duplicated THEN "duplicated"
  ELSE "skipped"

\* ------------------------------------------------------------- insertArticle
\* if (!a.title || !a.canonical_url || !a.url_hash) return {... 'missing key fields'}
InsertGuard(a) ==
  ~Truthy(a.title) \/ ~Truthy(a.canonical_url) \/ ~Truthy(a.url_hash)

\* const params = [...]
InsertParams(a) ==
  [title |-> a.title,
   canonical_url |-> a.canonical_url,
   url_hash |-> a.url_hash,
   excerpt |-> Or(a.excerpt, Null),
   content_html |-> Or(a.content_html, Null),
   image_url |-> Or(a.image_url, Null),
   published_at |-> IF Truthy(a.published_at) THEN NewDate(a.published_at) ELSE Null]

\* the result object for the affectedRows of the statement
InsertResult(affectedRows) ==
  IF affectedRows = 1 THEN [inserted |-> TRUE, duplicated |-> FALSE]
  ELSE IF affectedRows = 2 THEN [inserted |-> FALSE, duplicated |-> TRUE]
  ELSE [inserted |-> FALSE, duplicated |-> FALSE]

MissingResult == [inserted |-> FALSE, duplicated |-> FALSE]

\* INSERT INTO articles ... ON DUPLICATE KEY UPDATE url_hash = url_hash, with
\* url_hash UNIQUE: a row whose url_hash is stored is not inserted, and the
\* update assigns the stored row its own value
Stored(rows, hash) == \E r \in rows : r.url_hash = hash
Upsert(rows, row) ==
  IF Stored(rows, row.url_hash) THEN rows ELSE rows \cup {row}

\* affectedRows of the statement.  A new row gives 1.  For a stored url_hash
\* the source comment expects 2 (row updated); MySQL reports an existing row
\* set to its current values as 0, and as 1 on a connection that has the
\* CLIENT_FOUND_ROWS flag: which one the deployment gives is not fixed here.
AffectedRows(rows, row) ==
  IF Stored(rows, row.url_hash) THEN {0, 1, 2} ELSE {1}

\* ---------------------------------------------------------------------- main
\* a bug: the skipped items of a source are not added
AddTally_noSkipped(t, o) ==
  [inserted |-> t.inserted + o.inserted,
   duplicated |-> t.duplicated + o.duplicated,
   skipped |-> t.skipped]

\* totalInserted += inserted; totalDuplicated += duplicated; totalSkipped += skipped
AddTally(t, o) ==
  [inserted |-> t.inserted + o.inserted,
   duplicated |-> t.duplicated + o.duplicated,
   skipped |-> t.skipped + o.skipped]

\* saveFeed returns o to main, which adds it to the totals and loops
Return(o) ==
  /\ outcomes' = Append(outcomes, o)
  /\ total' = AddTally(total, o)
  /\ pc' = "loop"
  /\ i' = 0
  /\ lastErr' = NoError
  /\ log' = <<>>
  /\ feed' = NoDoc
  /\ k' = 0
  /\ n' = NoArticle
  /\ tally' = Zero

\* a bug: createPool() is called before the configuration check
main_poolFirst ==
  /\ pc = "main"
  /\ UNCHANGED pending
  /\ UNCHANGED others
  /\ pool' = "open"
  /\ IF Len(FEEDS) = 0
     THEN /\ pc' = "exit"
          /\ exitCode' = 1
          /\ UNCHANGED total
     ELSE /\ pc' = "loop"
          /\ total' = Zero
          /\ UNCHANGED exitCode
  /\ UNCHANGED <<FEEDS, run, f, outcomes, i, lastErr, log, feed, k, n, tally,
                 articles, last, called>>

\* main up to the first await: the configuration check and createPool
main ==
  /\ pc = "main"
  /\ UNCHANGED pending
  /\ UNCHANGED others
  /\ IF Len(FEEDS) = 0
     THEN /\ pc' = "exit"
          /\ exitCode' = 1
          /\ UNCHANGED <<pool, total>>
     ELSE /\ pc' = "loop"
          /\ pool' = "open"
          /\ total' = Zero
          /\ UNCHANGED exitCode
  /\ UNCHANGED <<FEEDS, run, f, outcomes, i, lastErr, log, feed, k, n, tally,
                 articles, last, called>>

\* for (const url of FEEDS): saveFeed(pool, url) calls parseWithRetry(url, 3),
\* which issues the first parser.parseURL
forFeeds ==
  /\ pc = "loop"
  /\ pending' = Issue(pending, IF NeedsBackoff(1) THEN "setTimeout" ELSE "parseURL")
  /\ UNCHANGED others
  /\ f < Len(FEEDS)
  /\ f' = f + 1
  /\ i' = 1
  /\ lastErr' = NoError
  /\ IF NeedsBackoff(1)
     THEN /\ pc' = "sleep"
          /\ log' = <<Event("sleep", backoff(1))>>
     ELSE /\ pc' = "fetch"
          /\ log' = <<Event("attempt", 1)>>
  /\ called' = Append(called, FEEDS[f + 1])
  /\ last' = NoStep
  /\ UNCHANGED <<FEEDS, run, pool, exitCode, total, outcomes, feed, k, n, tally,
                 articles>>

\* the timer of the backoff fires: parser.parseURL is issued
backoffElapsed ==
  /\ pc = "sleep"
  /\ pending' = Issue(Settle(pending, "setTimeout"), "parseURL")
  /\ UNCHANGED others
  /\ pc' = "fetch"
  /\ log' = Append(log, Event("attempt", i))
  /\ UNCHANGED <<FEEDS, run, pool, exitCode, f, total, outcomes, i, lastErr,
                 feed, k, n, tally, articles, last, called>>

\* a bug: the promise of the backoff timer is not awaited, the next attempt is
\* issued while the timer runs
parseURLRejects_noAwait ==
  /\ pc = "fetch"
  /\ UNCHANGED others
  /\ \E e \in FetchErrors :
       LET err == Err(e, i)
       IN IF IsLastAttempt(i)
          THEN /\ Return(ErrorOutcome(Rethrown(err, lastErr)))
               /\ pending' = Settle(pending, "parseURL")
               /\ UNCHANGED <<FEEDS, run, pool, exitCode, f, articles, last,
                              called>>
          ELSE /\ i' = i + 1
               /\ lastErr' = err
               /\ pc' = "fetch"
               /\ log' = Append(Append(log, Event("sleep", backoff(i + 1))),
                                Event("attempt", i + 1))
               /\ pending' = Issue(Issue(Settle(pending, "parseURL"),
                                         "setTimeout"), "parseURL")
               /\ UNCHANGED <<FEEDS, run, pool, exitCode, f, total, outcomes,
                              feed, k, n, tally, articles, last, called>>

\* parser.parseURL rejects: the catch of parseWithRetry, and at the last
\* attempt the catch of saveFeed and the return to main
parseURLRejects ==
  /\ pc = "fetch"
  /\ UNCHANGED others
  /\ \E e \in FetchErrors :
       LET err == Err(e, i)
       IN IF IsLastAttempt(i)
          THEN /\ Return(ErrorOutcome(Rethrown(err, lastErr)))
               /\ pending' = Settle(pending, "parseURL")
               /\ UNCHANGED <<FEEDS, run, pool, exitCode, f, articles, last,
                              called>>
          ELSE IF LoopCond(i + 1)
          THEN /\ i' = i + 1
               /\ lastErr' = err
               /\ IF NeedsBackoff(i + 1)
                  THEN /\ pc' = "sleep"
                       /\ log' = Append(log, Event("sleep", backoff(i + 1)))
                       /\ pending' = Issue(Settle(pending, "parseURL"),
                                           "setTimeout")
                  ELSE /\ pc' = "fetch"
                       /\ log' = Append(log, Event("attempt", i + 1))
                       /\ pending' = Issue(Settle(pending, "parseURL"),
                                           "parseURL")
               /\ UNCHANGED <<FEEDS, run, pool, exitCode, f, total, outcomes,
                              feed, k, n, tally, articles, last, called>>
          ELSE /\ Return(ErrorOutcome(err))
               /\ pending' = Settle(pending, "parseURL")
               /\ UNCHANGED <<FEEDS, run, pool, exitCode, f, articles, last,
                              called>>

\* parser.parseURL resolves: return await parser.parseURL(url)
parseURLResolves ==
  /\ pc = "fetch"
  /\ pending' = Settle(pending, "parseURL")
  /\ UNCHANGED others
  /\ \E d \in Docs : feed' = d
  /\ pc' = "parsed"
  /\ UNCHANGED <<FEEDS, run, pool, exitCode, f, total, outcomes, i, lastErr,
                 log, k, n, tally, articles, last, called>>

\* const feed = await parseWithRetry(url, 3) resumes: saveFeed starts its loop
\* over feed.items
saveFeedResumes ==
  /\ pc = "parsed"
  /\ UNCHANGED pending
  /\ UNCHANGED others
  /\ pc' = "items"
  /\ i' = 0
  /\ lastErr' = NoError
  /\ log' = <<>>
  /\ tally' = Zero
  /\ k' = 1
  /\ UNCHANGED <<FEEDS, run, pool, exitCode, f, total, outcomes, feed, n,
                 articles, last, called>>

\* a bug: the loop of saveFeed stops taking items one short of the end
AtItem_oneShort == pc = "items" /\ k < feed.length

\* the loop of saveFeed is at an item
AtItem == pc = "items" /\ k <= feed.length

\* normalizeItem(raw) throws: the catch of saveFeed returns to main
itemThrows ==
  /\ AtItem
  /\ UNCHANGED pending
  /\ UNCHANGED others
  /\ \E raw \in RawItems : NormalizeThrows(raw)
  /\ Return(ErrorOutcome(Err("TypeError", 0)))
  /\ last' = Step("threw", FALSE, 0, "none")
  /\ UNCHANGED <<FEEDS, run, pool, exitCode, f, articles, called>>

\* skipped++; continue;
itemSkipped ==
  /\ AtItem
  /\ UNCHANGED pending
  /\ UNCHANGED others
  /\ \E raw \in RawItems :
       /\ ~NormalizeThrows(raw)
       /\ MissingKeys(normalizeItem(raw))
  /\ tally' = SkipCount(tally)
  /\ k' = k + 1
  /\ last' = Step("missing", FALSE, 0, "skipped")
  /\ UNCHANGED <<FEEDS, pc, run, pool, exitCode, f, total, outcomes, i, lastErr,
                 log, feed, n, articles, called>>

\* insertArticle(pool, n) up to its await of pool.query
itemSubmitted ==
  /\ AtItem
  /\ UNCHANGED others
  /\ \E raw \in RawItems :
       /\ ~NormalizeThrows(raw)
       /\ ~MissingKeys(normalizeItem(raw))
       /\ IF InsertGuard(normalizeItem(raw))
          THEN /\ tally' = Count(tally, Classify(MissingResult))
               /\ k' = k + 1
               /\ last' = Step("missing", FALSE, 0, Classify(MissingResult))
               /\ UNCHANGED <<pc, n, pending>>
          ELSE /\ pc' = "query"
               /\ n' = normalizeItem(raw)
               /\ last' = NoStep
               /\ pending' = Issue(pending, "query")
               /\ UNCHANGED <<tally, k>>
  /\ UNCHANGED <<FEEDS, run, pool, exitCode, f, total, outcomes, i, lastErr,
                 log, feed, articles, called>>

\* pool.query resolves: the statement has run, its result is classified
queryResolves ==
  /\ pc = "query"
  /\ pending' = Settle(pending, "query")
  /\ UNCHANGED others
  /\ LET row == InsertParams(n)
     IN \E affectedRows \in AffectedRows(articles, row) :
          LET counted == Classify(InsertResult(affectedRows))
          IN /\ articles' = Upsert(articles, row)
             /\ tally' = Count(tally, counted)
             /\ last' = Step("answered", Stored(articles, row.url_hash),
                              affectedRows, counted)
  /\ k' = k + 1
  /\ n' = NoArticle
  /\ pc' = "items"
  /\ UNCHANGED <<FEEDS, run, pool, exitCode, f, total, outcomes, i, lastErr,
                 log, feed, called>>

\* a bug: no try/catch around insertArticle, the rejection reaches the catch of
\* saveFeed
queryRejects_escalates ==
  /\ pc = "query"
  /\ pending' = Settle(pending, "query")
  /\ UNCHANGED others
  /\ Return(ErrorOutcome(Err("store", 0)))
  /\ last' = Step("rejected", FALSE, 0, "skipped")
  /\ UNCHANGED <<FEEDS, run, pool, exitCode, f, articles, called>>

\* pool.query rejects: catch (e) { skipped++ }; the row is not stored
queryRejects ==
  /\ pc = "query"
  /\ pending' = Settle(pending, "query")
  /\ UNCHANGED others
  /\ tally' = Count(tally, "skipped")
  /\ k' = k + 1
  /\ n' = NoArticle
  /\ pc' = "items"
  /\ last' = Step("rejected", FALSE, 0, "skipped")
  /\ UNCHANGED <<FEEDS, run, pool, exitCode, f, total, outcomes, i, lastErr,
                 log, feed, articles, called>>

\* the loop over the items is over: return { inserted, duplicated, skipped }
itemsDone ==
  /\ pc = "items"
  /\ UNCHANGED pending
  /\ UNCHANGED others
  /\ k > feed.length
  /\ Return(TallyOutcome(tally))
  /\ last' = NoStep
  /\ UNCHANGED <<FEEDS, run, pool, exitCode, f, articles, called>>

\* the loop over FEEDS is over: the totals are printed, finally pool.end()
mainEnd ==
  /\ pc = "loop"
  /\ UNCHANGED pending
  /\ UNCHANGED others
  /\ f >= Len(FEEDS)
  /\ pc' = "done"
  /\ pool' = "closed"
  /\ UNCHANGED <<FEEDS, run, exitCode, f, total, outcomes, i, lastErr, log,
                 feed, k, n, tally, articles, last, called>>

\* node src/saveToDb.js is run again, on the same configuration and database
newRun ==
  /\ pc = "done"
  /\ UNCHANGED pending
  /\ UNCHANGED others
  /\ run < MaxRuns
  /\ run' = run + 1
  /\ pc' = "main"
  /\ pool' = "none"
  /\ f' = 0
  /\ total' = Zero
  /\ outcomes' = <<>>
  /\ called' = <<>>
  /\ last' = NoStep
  /\ UNCHANGED <<FEEDS, exitCode, i, lastErr, log, feed, k, n, tally, articles>>

Next ==
  \/ main
  \/ forFeeds
  \/ backoffElapsed
  \/ parseURLRejects
  \/ parseURLResolves
  \/ saveFeedResumes
  \/ itemThrows
  \/ itemSkipped
  \/ itemSubmitted
  \/ queryResolves
  \/ queryRejects
  \/ itemsDone
  \/ mainEnd
  \/ newRun

Spec == Init /\ [][Next]_vars

\* one run of the script, from its start to its end.  Every promise the script
\* awaits is eventually settled (the fetch resolves or rejects, the timer
\* fires, the statement resolves or rejects) and the script then runs on to its
\* next await.
RunStep ==
  \/ main
  \/ forFeeds
  \/ backoffElapsed
  \/ parseURLRejects
  \/ parseURLResolves
  \/ saveFeedResumes
  \/ itemThrows
  \/ itemSkipped
  \/ itemSubmitted
  \/ queryResolves
  \/ queryRejects
  \/ itemsDone
  \/ mainEnd
SpecFair == Init /\ [][RunStep]_vars /\ WF_vars(RunStep)

\* =========================================================== normalizeItem
\* the variables of a run of saveToDb.js, and the state in which it has not
\* been started
pipeline == <<FEEDS, pc, run, pool, exitCode, f, total, outcomes, i, lastErr,
              log, feed, k, n, tally, articles, last, called, pending>>
Idle ==
  /\ FEEDS = <<>>
  /\ pc = "main"
  /\ run = 1
  /\ pool = "none"
  /\ exitCode = 0
  /\ f = 0
  /\ total = Zero
  /\ outcomes = <<>>
  /\ i = 0
  /\ lastErr = NoError
  /\ log = <<>>
  /\ feed = NoDoc
  /\ k = 0
  /\ n = NoArticle
  /\ tally = Zero
  /\ articles = {}
  /\ last = NoStep
  /\ called = <<>>
  /\ pending = <<>>

\* an item with no field set
Sparse == RawItem(Undef, Undef, Undef, Undef)

\* the raw items normalizeItem is called with.  Any field can be missing, an
\* empty or blank string, a string with blanks around it, or (a value that is
\* not a string) an object; the items vary the fields of one concern at a time.
Titles == {Undef, Str(<<"A">>), Str(<<" ", "B">>), Obj(<<>>)}
Links == {Undef, Null, Str(<<>>), Str(<<" ">>), Str(<<"u">>),
          Str(<<" ", "u", " ">>), Obj(<<>>)}
Guids == {Undef, Str(<<"g">>), Str(<<"id-123">>), Str(<<"\t", "u">>), Obj(<<>>)}
KeyItems ==
  {[Sparse EXCEPT !.title = t, !.link = l, !.guid = g] :
     t \in Titles, l \in Links, g \in Guids}

IsoDates == {Undef, Str(<<>>), Str(<<"2", "0">>), Str(<<"s", "o", "o", "n">>)}
PubDates == {Undef, Str(<<"1", "9">>), Str(<<"x">>)}
DateItems ==
  {[Sparse EXCEPT !.title = Str(<<"A">>), !.link = Str(<<"u">>),
                  !.isoDate = d, !.pubDate = p] :
     d \in IsoDates, p \in PubDates}

Enclosures == {Undef, Str(<<"e">>), Str(<<>>), Obj(<<"e", "o">>), Obj(<<>>)}
MediaContents == {Undef, Str(<<"m">>), Obj(<<"m", "o">>), Obj(<<>>)}
MediaThumbnails == {Undef, Str(<<"t">>), Obj(<<"t", "o">>)}
Encoded == {Undef, Str(<<"<img src=i>">>), Str(<<"p">>)}
Contents == {Undef, Str(<<"<IMG src=j>", "<img src=i>">>)}
ImageItems ==
  {[Sparse EXCEPT !.enclosure = e, !.mediaContent = m, !.mediaThumbnail = t,
                  !.content_encoded = c, !.content = h] :
     e \in Enclosures, m \in MediaContents, t \in MediaThumbnails,
     c \in Encoded, h \in Contents}

Snippets == {Undef, Str(<<>>), Str(<<"s", " ", "\t", "x">>)}
ExcerptItems ==
  {[Sparse EXCEPT !.contentSnippet = c, !.summary = m, !.description = d,
                  !.content = h] :
     c \in Snippets, m \in {Undef, Str(<<"m">>)}, d \in {Undef, Str(<<"d">>)},
     h \in {Undef, Str(<<" ">>)}}

GivenItems == KeyItems \cup DateItems \cup ImageItems \cup ExcerptItems

\* what a call gave: the value it returned, or the exception it threw
Returned(value) == [threw |-> FALSE, value |-> value]
Threw == [threw |-> TRUE, value |-> Null]

InitNormalize ==
  /\ Idle
  /\ given \in {[kind |-> "item", item |-> item] : item \in GivenItems}
  /\ returned = <<>>
  /\ important = {}
  /\ req = NoReq

\* normalizeItem(item): item is read and not assigned to
callNormalizeItem ==
  /\ given.kind = "item"
  /\ returned = <<>>
  /\ returned' = IF NormalizeThrows(given.item) THEN <<Threw>>
                 ELSE <<Returned(normalizeItem(given.item))>>
  /\ UNCHANGED <<given, important, req>>
  /\ UNCHANGED pipeline

NextNormalize == callNormalizeItem

SpecNormalize == InitNormalize /\ [][NextNormalize]_vars

\* ============================================================= makeExcerpt
\* the texts makeExcerpt is called with: letters, blanks and tabs, up to
\* MaxText characters; and the values that are not a text
Alphabet == {"a", "b", " ", "\t"}
Texts == UNION {[1..m -> Alphabet] : m \in 0..MaxText}
Strs == {Str(t) : t \in Texts} \cup {Undef, Null}
\* the values of max
Cuts == 0..MaxCut

InitExcerpt ==
  /\ Idle
  /\ given \in {[kind |-> "text", str |-> str, max |-> max] :
                  str \in Strs, max \in Cuts}
  /\ returned = <<>>
  /\ important = {}
  /\ req = NoReq

\* makeExcerpt(str, max)
callMakeExcerpt ==
  /\ given.kind = "text"
  /\ returned = <<>>
  /\ returned' = <<Returned(makeExcerpt(given.str, given.max))>>
  /\ UNCHANGED <<given, important, req>>
  /\ UNCHANGED pipeline

\* makeExcerpt(makeExcerpt(str, max), max)
callMakeExcerptAgain ==
  /\ given.kind = "text"
  /\ Len(returned) = 1
  /\ returned' = Append(returned,
                        Returned(makeExcerpt(returned[1].value, given.max)))
  /\ UNCHANGED <<given, important, req>>
  /\ UNCHANGED pipeline

NextExcerpt ==
  \/ callMakeExcerpt
  \/ callMakeExcerptAgain

SpecExcerpt == InitExcerpt /\ [][NextExcerpt]_vars

\* ================================================================ server.js
\* sha1 of server.js: crypto.createHash('sha1').update(String(str)).digest('hex')
sha1Server(str) == Digest(ToText(str))

\* the bodies of POST /api/important: a member that is left out is undefined
ImportantUrls == {Undef, Str(<<>>), Str(<<"u">>), Str(<<"v">>)}
ImportantTitles == {Undef, Str(<<"T">>), Str(<<"U">>)}
ImportantImages == {Undef, Str(<<"i">>)}
ImportantExcerpts == {Undef, Str(<<"e">>)}
ImportantDates == {Undef, Str(<<"2", "0">>), Str(<<"x">>)}
Bodies ==
  {[canonical_url |-> c, title |-> t, image_url |-> im, excerpt |-> e,
    published_at |-> p] :
     c \in ImportantUrls, t \in ImportantTitles, im \in ImportantImages,
     e \in ImportantExcerpts, p \in ImportantDates}

\* the :hash of DELETE /api/important/:hash: a digest has 40 characters
HashParams == {Digest(<<"u">>), Digest(<<"v">>), Str(<<"abc">>)}
HashLength(hash) == IF hash.t = "sha1" THEN 40 ELSE Len(hash.v)

\* const { title = null } = req.body: the default replaces undefined
Default(x) == IF x = Undef THEN Null ELSE x

\* const params = [...]
ImportantParams(body) ==
  [url_hash |-> sha1Server(body.canonical_url),
   canonical_url |-> body.canonical_url,
   title |-> Default(body.title),
   image_url |-> Default(body.image_url),
   excerpt |-> Default(body.excerpt),
   published_at |-> IF Truthy(Default(body.published_at))
                    THEN NewDate(body.published_at) ELSE Null]

\* a DATETIME parameter that is an Invalid Date: a server in strict mode
\* rejects the statement, any other stores the zero date
ZeroDate == DateOf(<<"0">>)
InvalidDate(params) == params.published_at = DateOf(<<>>)
StoredParams(params) ==
  IF InvalidDate(params) THEN [params EXCEPT !.published_at = ZeroDate]
  ELSE params

\* a bug: title = VALUES(title), the new value replaces the stored one
Coalesce_overwrite(new, old) == new
\* COALESCE(VALUES(col), col)
Coalesce(new, old) == IF new # Null THEN new ELSE old

\* INSERT INTO important_articles ... ON DUPLICATE KEY UPDATE ...: a new
\* url_hash is inserted with created_at the time of the statement; a stored
\* one keeps canonical_url and created_at and coalesces the other columns
StoredImportant(rows, hash) == {r \in rows : r.url_hash = hash}
ImportantUpsert(rows, params, now) ==
  IF StoredImportant(rows, params.url_hash) = {}
  THEN rows \cup {[url_hash |-> params.url_hash,
                   canonical_url |-> params.canonical_url,
                   title |-> params.title,
                   image_url |-> params.image_url,
                   excerpt |-> params.excerpt,
                   published_at |-> params.published_at,
                   created_at |-> now]}
  ELSE {IF r.url_hash # params.url_hash THEN r
        ELSE [r EXCEPT !.title = Coalesce(params.title, r.title),
                       !.image_url = Coalesce(params.image_url, r.image_url),
                       !.excerpt = Coalesce(params.excerpt, r.excerpt),
                       !.published_at = Coalesce(params.published_at,
                                                 r.published_at)] : r \in rows}

\* DELETE FROM important_articles WHERE url_hash = ?
ImportantDelete(rows, hash) == {r \in rows : r.url_hash # hash}

\* a request the server has answered: at is its number
Request(method, at, body, status) ==
  [method |-> method, at |-> at, body |-> body, status |-> status]
FirstReq == [method |-> "none", at |-> 0, body |-> Null, status |-> 0]

InitServer ==
  /\ Idle
  /\ given = NoArg
  /\ returned = <<>>
  /\ important = {}
  /\ req = FirstReq

\* the handler of app.post('/api/important') on a body: up says whether
\* pool.query reaches the database, strict whether the database is in strict
\* mode
PostImportant(body, up, strict) ==
  LET params == ImportantParams(body)
      now == req.at + 1
  IN IF ~Truthy(body.canonical_url)
     THEN /\ req' = Request("POST", now, body, 400)
          /\ UNCHANGED important
     ELSE IF ~up \/ (InvalidDate(params) /\ strict)
     THEN /\ req' = Request("POST", now, body, 500)
          /\ UNCHANGED important
     ELSE /\ important' = ImportantUpsert(important, StoredParams(params), now)
          /\ req' = Request("POST", now, body, 200)

\* app.post('/api/important')
postImportant ==
  /\ req.at < MaxRequests
  /\ \E body \in Bodies, up \in BOOLEAN, strict \in BOOLEAN :
       PostImportant(body, up, strict)
  /\ UNCHANGED <<given, returned>>
  /\ UNCHANGED pipeline

\* app.delete('/api/important/:hash')
deleteImportant ==
  /\ req.at < MaxRequests
  /\ \E hash \in HashParams, up \in BOOLEAN :
       LET now == req.at + 1
       IN IF ~Truthy(hash) \/ HashLength(hash) # 40
          THEN /\ req' = Request("DELETE", now, hash, 400)
               /\ UNCHANGED important
          ELSE IF ~up
          THEN /\ req' = Request("DELETE", now, hash, 500)
               /\ UNCHANGED important
          ELSE /\ important' = ImportantDelete(important, hash)
               /\ req' = Request("DELETE", now, hash, 200)
  /\ UNCHANGED <<given, returned>>
  /\ UNCHANGED pipeline

NextServer ==
  \/ postImportant
  \/ deleteImportant

SpecServer == InitServer /\ [][NextServer]_vars

\* ====================================== one URL in saveToDb.js and server.js
\* the same string is the link of a feed item that normalizeItem is called on
\* and the canonical_url of a body posted to /api/important
UrlStrings == {Str(t) : t \in Texts}
LinkItem(url) == [Sparse EXCEPT !.title = Str(<<"A">>), !.link = url]
UrlBody(url) ==
  [canonical_url |-> url, title |-> Str(<<"T">>), image_url |-> Undef,
   excerpt |-> Undef, published_at |-> Undef]

InitKey ==
  /\ Idle
  /\ given \in {[kind |-> "url", url |-> url] : url \in UrlStrings}
  /\ returned = <<>>
  /\ important = {}
  /\ req = FirstReq

\* saveFeed: const n = normalizeItem(raw), raw.link the string
normalizeLink ==
  /\ given.kind = "url"
  /\ returned = <<>>
  /\ returned' = IF NormalizeThrows(LinkItem(given.url)) THEN <<Threw>>
                 ELSE <<Returned(normalizeItem(LinkItem(given.url)))>>
  /\ UNCHANGED <<given, important, req>>
  /\ UNCHANGED pipeline

\* app.post('/api/important'), canonical_url the string
postUrl ==
  /\ given.kind = "url"
  /\ req.at = 0
  /\ \E up \in BOOLEAN, strict \in BOOLEAN :
       PostImportant(UrlBody(given.url), up, strict)
  /\ UNCHANGED <<given, returned>>
  /\ UNCHANGED pipeline

NextKey ==
  \/ normalizeLink
  \/ postUrl

SpecKey == InitKey /\ [][NextKey]_vars

\* ================================================================== claims
NAttempts(l) == Cardinality({j \in 1..Len(l) : l[j].ev = "attempt"})
Items(t) == t.inserted + t.duplicated + t.skipped
PlusOne(t, field) ==
  [inserted |-> t.inserted + (IF field = "inserted" THEN 1 ELSE 0),
   duplicated |-> t.duplicated + (IF field = "duplicated" THEN 1 ELSE 0),
   skipped |-> t.skipped + (IF field = "skipped" THEN 1 ELSE 0)]
KeysPresent(a) == Truthy(a.title) /\ Truthy(a.canonical_url) /\ Truthy(a.url_hash)
LastOutcome(os) == os[Len(os)]

RECURSIVE SumOutcomes(_)
SumOutcomes(os) ==
  IF os = <<>> THEN Zero
  ELSE LET rest == SumOutcomes(Tail(os))
       IN [inserted |-> Head(os).inserted + rest.inserted,
           duplicated |-> Head(os).duplicated + rest.duplicated,
           skipped |-> Head(os).skipped + rest.skipped]

C2_Delays ==
  \A j \in 1..Len(log) :
    log[j].ev = "attempt" =>
      /\ log[j].arg = 1 => j = 1
      /\ log[j].arg = 2 => (j > 1 /\ log[j - 1] = Event("sleep", 1000))
      /\ log[j].arg = 3 => (j > 1 /\ log[j - 1] = Event("sleep", 2000))

\* C3: when the third attempt fails too, parseWithRetry throws the error of
\* that attempt, and saveFeed returns {inserted: 0, duplicated: 0, skipped: 0,
\* error} to main, which goes on with its loop.
C3_LastErrorReturned ==
  [][ /\ (pc = "fetch" /\ pc' # "parsed" /\ NAttempts(log) = 3) => pc' = "loop"
      /\ (pc = "fetch" /\ pc' = "loop")
           => /\ NAttempts(log) = 3
              /\ Len(outcomes') = Len(outcomes) + 1
              /\ LastOutcome(outcomes').error.kind \in FetchErrors
              /\ LastOutcome(outcomes').error.at = 3
              /\ Items(LastOutcome(outcomes')) = 0
              /\ total' = total
              /\ pool' = "open"
              /\ exitCode' = 0
    ]_vars

\* a source has just been given up after its third attempt
C3_Witness ==
  /\ pc = "loop"
  /\ outcomes # <<>>
  /\ LastOutcome(outcomes).error.kind \in FetchErrors
  /\ LastOutcome(outcomes).error.at = 3

\* the bookkeeping of main: the calls of saveFeed, the outcomes, the totals
C4_State ==
  /\ called = SubSeq(FEEDS, 1, f)
  /\ Len(outcomes) = (IF pc \in {"main", "exit", "loop", "done"} THEN f ELSE f - 1)
  /\ total = SumOutcomes(outcomes)
  /\ pc = "done" => (f = Len(FEEDS) /\ called = FEEDS)

\* C4: whichever sources fail, saveFeed is called once for each configured
\* source, in the order of FEEDS; a source whose fetch is exhausted is returned
\* with an error; the totals are the sums of the outcomes returned.
C4_EverySourceOnce ==
  [][ /\ C4_State'
      /\ (pc = "fetch" /\ pc' = "loop") => LastOutcome(outcomes').error # NoError
      /\ pc' = "loop" => pool' = "open"
    ]_vars

\* a run over two sources is over: the first failed, the second stored a row
C4_Witness ==
  /\ pc = "done"
  /\ Len(FEEDS) = 2
  /\ outcomes[1].error.kind \in FetchErrors
  /\ outcomes[2].error = NoError
  /\ outcomes[2].inserted = 1
  /\ total.inserted = 1

\* C5: an item without canonical_url, url_hash or title, such as every item
\* with neither link nor guid, adds one to skipped and issues no statement;
\* a statement is issued only for an item that has the three, and no stored row
\* lacks one of them.
C5_MissingKeysSkipped ==
  [][ /\ (last'.step = "missing" /\ k' # k)
           => /\ pc' = "items"
              /\ tally' = PlusOne(tally, "skipped")
              /\ articles' = articles
      /\ pc' = "query" => KeysPresent(n')
      /\ \A r \in articles' : KeysPresent(r)
      /\ \A item \in RawItems :
           (~Truthy(item.link) /\ ~Truthy(item.guid) /\ ~NormalizeThrows(item))
             => /\ normalizeItem(item).canonical_url = Null
                /\ normalizeItem(item).url_hash = Null
    ]_vars

\* an item with a missing key was skipped, and nothing is stored
C5_Witness ==
  /\ last.step = "missing"
  /\ pc = "items"
  /\ tally = PlusOne(Zero, "skipped")
  /\ articles = {}

C7_DuplicateCounted ==
  last.step = "answered" =>
    /\ last.present => last.counted = "duplicated"
    /\ ~last.present => last.counted = "inserted"

\* C8: table articles holds at most one row for a url_hash, a submission of a
\* stored url_hash leaves the table as it is, and the table grows by as many
\* rows as submissions are counted as inserted.
C8_OneRowPerHash ==
  [][ /\ \A r1, r2 \in articles' : r1.url_hash = r2.url_hash => r1 = r2
      /\ (pc = "query" /\ last'.step = "answered" /\ last'.present)
           => articles' = articles
      /\ pc = "query"
           => Cardinality(articles') - Cardinality(articles)
                = tally'.inserted - tally.inserted
    ]_vars

\* C9: a rejected statement adds one to skipped, keeps inserted and
\* duplicated, and the loop of saveFeed goes on with the next item.
C9_StoreFailureContained ==
  [][ (pc = "query" /\ last'.step = "rejected")
        => /\ tally' = PlusOne(tally, "skipped")
           /\ k' = k + 1
           /\ pc' = "items"
           /\ feed' = feed
           /\ outcomes' = outcomes
           /\ total' = total
    ]_vars

\* the statement of the first item was rejected and counted as skipped, and
\* the loop is at the second item of the feed
C9_Witness ==
  /\ last.step = "rejected"
  /\ pc = "items"
  /\ tally = PlusOne(Zero, "skipped")
  /\ k = 2
  /\ k <= feed.length

\* C10: a source is returned with an error only when its fetch was exhausted:
\* once the document is parsed, saveFeed returns a tally without error that
\* counts every item.
C10_NoEscalation ==
  [][ (pc \in {"items", "query"} /\ pc' = "loop")
        => /\ LastOutcome(outcomes').error = NoError
           /\ Items(LastOutcome(outcomes')) = feed.length
    ]_vars

\* C11: when no source is configured (FEEDS is empty) the run ends with the
\* fatal exit code 1 and nothing else has happened: no pool was created, no
\* source was fetched, no timer or statement was issued, no row was written.
C11_FatalBeforeAnything ==
  Len(FEEDS) = 0 =>
    /\ pc \in {"main", "exit"}
    /\ pc = "exit" => exitCode = 1
    /\ pool = "none"
    /\ called = <<>>
    /\ log = <<>>
    /\ pending = <<>>
    /\ outcomes = <<>>
    /\ articles = {}
C11_Witness == Len(FEEDS) = 0 /\ pc = "exit" /\ exitCode = 1 /\ pool = "none"

\* normalizeItem was called on given.item and returned the Article
HasArticle == given.kind = "item" /\ returned # <<>> /\ ~returned[1].threw
\* the items of the model that normalizeItem returns an Article for
Normalizable == {item \in GivenItems : ~NormalizeThrows(item)}

\* C12: in the Article normalizeItem returns, url_hash is present exactly when
\* canonical_url is; it is the digest of the text of canonical_url, so every
\* item with the same canonical_url gets the same url_hash whatever its other
\* fields are; it is never the digest of the empty text.
C12_HashOfUrl ==
  HasArticle =>
    LET a == returned[1].value
    IN /\ a.url_hash # Null <=> a.canonical_url # Null
       /\ a.url_hash \in {Null, Digest(a.canonical_url.v)}
       /\ a.url_hash # Digest(<<>>)
       /\ \A other \in Normalizable :
            normalizeItem(other).canonical_url = a.canonical_url
              => normalizeItem(other).url_hash = a.url_hash
C12_Witness ==
  /\ HasArticle
  /\ given.item.link = Str(<<" ", "u", " ">>)
  /\ given.item.title = Str(<<" ", "B">>)
  /\ returned[1].value.canonical_url = Str(<<"u">>)
  /\ returned[1].value.url_hash = Digest(<<"u">>)

\* C13: normalizeItem returns an Article for every raw item, whatever the
\* types of its fields, and never throws.
C13_NeverThrows ==
  given.kind = "item" /\ returned # <<>> => ~returned[1].threw

\* the text new Date parses in the model
Parses(x) == x.t = "str" /\ x.v # <<>> /\ \A j \in 1..Len(x.v) : x.v[j] \in Digits

\* C14: published_at is the date parsed from isoDate when the item has one and
\* from pubDate otherwise; when the item has neither, or the chosen text does
\* not parse, published_at is null and never an invalid Date.
C14_PublishedAt ==
  HasArticle =>
    LET item == given.item
        chosen == IF Truthy(item.isoDate) THEN item.isoDate ELSE item.pubDate
    IN returned[1].value.published_at =
         (IF Truthy(chosen) /\ Parses(chosen) THEN DateOf(chosen.v) ELSE Null)

\* C16 as stated: canonical_url is the trimmed link when the item has a link,
\* else the trimmed guid when it has a guid, else null; never the empty string.
C16_TrimmedLinkElseGuid ==
  HasArticle =>
    LET item == given.item
        url == returned[1].value.canonical_url
    IN /\ url # Str(<<>>)
       /\ IF Truthy(item.link) THEN url = Str(Trim(item.link.v))
          ELSE IF Truthy(item.guid) THEN url = Str(Trim(item.guid.v))
          ELSE url = Null

\* C16 amended: the link is chosen when it is a non-empty string, else the
\* guid; canonical_url is the chosen text trimmed, and null when there is none
\* or when it is blank (the guid is not tried after a blank link); so it is
\* never the empty string and has no blank at either end.
C16_ChosenThenTrimmed ==
  HasArticle =>
    LET item == given.item
        url == returned[1].value.canonical_url
        chosen == IF Truthy(item.link) THEN item.link ELSE item.guid
    IN /\ url = (IF Truthy(chosen) /\ Trim(chosen.v) # <<>>
                 THEN Str(Trim(chosen.v)) ELSE Null)
       /\ url # Str(<<>>)
       /\ url # Null => /\ ~IsSpace(Head(url.v))
                         /\ ~IsSpace(url.v[Len(url.v)])
C16_Witness ==
  /\ HasArticle
  /\ given.item.link = Undef
  /\ given.item.guid = Str(<<"id-123">>)
  /\ returned[1].value.canonical_url = Str(<<"id-123">>)
\* a blank link hides the guid
C16_WitnessBlank ==
  /\ HasArticle
  /\ given.item.link = Str(<<" ">>)
  /\ given.item.guid = Str(<<"g">>)
  /\ returned[1].value.canonical_url = Null

\* a step of the chain yields: the field is a string, or an object with a url
Yields(x) == x.t = "str" \/ (x.t = "obj" /\ x.v # <<>>)
Chain(item) == <<item.enclosure, item.mediaContent, item.mediaThumbnail>>
FirstYield(item) ==
  LET hits == {j \in 1..3 : Yields(Chain(item)[j])}
  IN IF hits = {} THEN 0 ELSE CHOOSE j \in hits : \A h \in hits : j <= h

\* C17: image_url is what the first yielding step of enclosure, media-content,
\* media-thumbnail gives, whatever the later steps hold; when none of the three
\* yields it is the src of the first <img> of the HTML body (content:encoded,
\* else content), and null when there is none.
C17_FirstStepWins ==
  HasArticle =>
    LET item == given.item
        image == returned[1].value.image_url
        first == FirstYield(item)
        html == IF Truthy(item.content_encoded) THEN item.content_encoded
                ELSE item.content
    IN /\ first > 0 => image = Str(Chain(item)[first].v)
       /\ first = 0 /\ ~Truthy(html) => image = Null
       /\ first = 0 /\ Truthy(html) => image = ImgMatch(html.v)
       /\ \A other \in Normalizable :
            /\ first > 0
            /\ FirstYield(other) = first
            /\ Chain(other)[first] = Chain(item)[first]
            => normalizeItem(other).image_url = image
C17_Witness ==
  /\ HasArticle
  /\ given.item.enclosure = Obj(<<"e", "o">>)
  /\ given.item.mediaThumbnail = Str(<<"t">>)
  /\ returned[1].value.image_url = Str(<<"e", "o">>)

\* C15: makeExcerpt applied to its own result gives that result again, for
\* every text and every max; an absent or empty input gives null.
C15_Idempotent ==
  given.kind = "text" =>
    /\ Len(returned) = 2 => returned[2] = returned[1]
    /\ returned # <<>> /\ ~Truthy(given.str) => returned[1].value = Null

\* the optional columns a create with params leaves as they are in row old
Kept(params, old, new) ==
  /\ new.url_hash = old.url_hash
  /\ new.canonical_url = old.canonical_url
  /\ new.created_at = old.created_at
  /\ params.title = Null => new.title = old.title
  /\ params.image_url = Null => new.image_url = old.image_url
  /\ params.excerpt = Null => new.excerpt = old.excerpt
  /\ params.published_at = Null => new.published_at = old.published_at

\* C18: after every request important_articles has at most one row per
\* url_hash; a create that repeats the create before it leaves the table as it
\* was; a create for a stored url_hash keeps every optional column it leaves
\* out; a create without canonical_url is answered 400 and changes nothing.
C18_IdempotentUpsert ==
  [][ /\ \A r1, r2 \in important' : r1.url_hash = r2.url_hash => r1 = r2
      /\ ( /\ req.method = "POST" /\ req.status = 200
           /\ req'.method = "POST" /\ req'.status = 200
           /\ req'.body = req.body )
         => important' = important
      /\ req'.method = "POST" /\ req'.status = 200 =>
           LET params == ImportantParams(req'.body)
           IN \A old \in StoredImportant(important, params.url_hash) :
                \E new \in important' : Kept(params, old, new)
      /\ req'.method = "POST" /\ ~Truthy(req'.body.canonical_url) =>
           req'.status = 400 /\ important' = important
    ]_vars
C18_Witness ==
  /\ req.method = "POST" /\ req.status = 200 /\ req.at = 2
  /\ req.body.title = Undef
  /\ req.body.excerpt = Str(<<"e">>)
  /\ \E r \in important :
       /\ r.url_hash = sha1Server(req.body.canonical_url)
       /\ r.created_at = 1
       /\ r.title = Str(<<"T">>)
       /\ r.excerpt = Str(<<"e">>)

\* the promise the script is suspended on at each await
Awaited ==
  IF pc = "fetch" THEN <<"parseURL">>
  ELSE IF pc = "sleep" THEN <<"setTimeout">>
  ELSE IF pc = "query" THEN <<"query">>
  ELSE <<>>
\* what a step may start: a fetch attempt only when no fetch is outstanding
\* and, after the first, the attempt before it has failed; the work on an item
\* only when no statement is outstanding; the next source only when every
\* source before it has returned its outcome
C19_Step ==
  /\ NAttempts(log') > NAttempts(log) =>
       /\ \A j \in 1..Len(pending) : pending[j] # "parseURL"
       /\ NAttempts(log') > 1 => lastErr'.at = NAttempts(log') - 1
  /\ (pc = "items" /\ (k' # k \/ pc' # pc)) => pending = <<>>
  /\ f' = f + 1 => /\ pending = <<>>
                    /\ Len(outcomes) = f
                    /\ pc = "loop"

\* C19: at every point of a run at most one fetch attempt, backoff timer or
\* statement is outstanding, and it is the one the script awaits; the next
\* attempt, item or source is started only when the one before has settled.
C19_OneOutstanding == [](Len(pending) <= 1 /\ pending = Awaited) /\ [][C19_Step]_vars
C19_Witness ==
  /\ pc = "query" /\ pending = <<"query">>
  /\ f = 2 /\ k = 2
  /\ Len(outcomes) = 1

\* the run has ended and has printed the totals of all its sources
Reported ==
  /\ pc = "done"
  /\ Len(outcomes) = Len(FEEDS)
  /\ total = SumOutcomes(outcomes)
  /\ pending = <<>>

\* C20: when every fetch attempt and every statement is eventually settled, a
\* run over a non-empty FEEDS ends: it makes at most 3 fetch attempts per
\* source, has handled k - 1 items (one statement at most for each) when its
\* loop is at item k, and eventually has an outcome for every source and has
\* reported the totals.
C20_Terminates ==
  /\ [](NAttempts(log) <= ATTEMPTS)
  /\ [](pc \in {"items", "query"} =>
          Items(tally) = k - 1 /\ k <= feed.length + 1)
  /\ [](pc = "query" => k <= feed.length)
  /\ [](pc = "main" /\ Len(FEEDS) > 0 => <>Reported)
C20_Witness ==
  /\ Reported
  /\ Len(FEEDS) = 2
  /\ outcomes[1].error # NoError
  /\ SumOutcomes(outcomes).inserted + SumOutcomes(outcomes).duplicated
       + SumOutcomes(outcomes).skipped > 1

\* C21: when a string with a non-blank character has been posted as
\* canonical_url and the bookmark is stored, and normalizeItem has been called
\* on an item whose link is the same string, the url_hash of the bookmark is
\* the url_hash of the Article.
C21_SameKey ==
  ( /\ given.kind = "url"
    /\ Trim(given.url.v) # <<>>
    /\ req.method = "POST" /\ req.status = 200
    /\ returned # <<>> /\ ~returned[1].threw )
  => \A r \in important : r.url_hash = returned[1].value.url_hash
====
